---- MODULE Spec2Model ----
(***************************************************************************)
(* battery-notify: the status aggregator (system.rs / main.rs              *)
(* get_global_battery, Battery::level), the notification slot              *)
(* (SingleNotification, in notification.rs and in main.rs) and the poll    *)
(* loop of main.rs.                                                        *)
(*                                                                         *)
(* Three specifications share the module:                                  *)
(*   SpecAgg   get_global_battery and level applied to bounded readings    *)
(*   SpecSlot  arbitrary show/close sequences on one slot, for either      *)
(*             implementation of SingleNotification                        *)
(*   Spec      the poll loop of main.rs (tick, sleep, signal, exit)        *)
(***************************************************************************)
EXTENDS Integers, Sequences, FiniteSets, TLC

VARIABLES
    batteries,        \* SpecAgg: the readings handed to get_global_battery
    global,           \* SpecAgg: None, or Some(its result)
    impl,             \* SpecSlot: which SingleNotification is exercised
    slot,             \* SpecSlot: the slot, [hnd, summary]
    lastOp,           \* SpecSlot: the last call on the slot and what it did
    prevOp,           \* SpecSlot: the call before it
    server,           \* the notifications the notification server displays
    cfg,              \* Spec: the loaded Config
    state_notif,      \* Spec: main.rs:295
    low_notif,        \* Spec: main.rs:296
    mon_notif,        \* Spec: main.rs:297
    bbat_notifs,      \* Spec: main.rs:303, device name -> slot
    next_sleep_epoch, \* Spec: main.rs:299
    clock,            \* Spec: the monotonic clock (Instant::now()), seconds
    should_term,      \* Spec: main.rs:300
    cancelled,        \* Spec: the timer's pending cancellation (the instant
                      \* the signal arrives at), or None
    pc,               \* Spec: position of main: "top", "sleep", "done", "failed"
    tick              \* Spec: what the last tick read and did

aggVars  == <<batteries, global>>
slotVars == <<impl, slot, lastOp, prevOp>>
mainVars == <<cfg, state_notif, low_notif, mon_notif, bbat_notifs,
              next_sleep_epoch, clock, should_term, cancelled, pc, tick>>
vars     == <<aggVars, slotVars, server, mainVars>>

\* Option<T>
None    == {}
Some(x) == {x}
Unwrap(o) == CHOOSE x \in o : TRUE

Min(a, b) == IF a < b THEN a ELSE b

RECURSIVE SumSeq(_)
SumSeq(s) == IF s = <<>> THEN 0 ELSE Head(s) + SumSeq(Tail(s))

(***************************************************************************)
(* BatteryState, Battery                                                   *)
(***************************************************************************)
\* The states sysfs reports
HardwareStates == {"Discharging", "Charging", "NotCharging", "Full", "Unknown"}
\* "These are internal values -- they never come from sysfs"; serde accepts
\* their names all the same
SyntheticStates == {"AtThreshold", "Invalid"}
BatteryState == HardwareStates \cup SyntheticStates

\* serde_plain::to_string with the serde renames
battery_state_to_name(state) ==
    CASE state = "NotCharging" -> "Not charging"
      [] state = "AtThreshold" -> "At threshold"
      [] OTHER -> state

\* serde_plain::from_str(name).unwrap(): a name no variant carries panics
\* (None here)
name_to_battery_state(name) ==
    LET hits == {s \in BatteryState : battery_state_to_name(s) = name}
    IN  IF hits = {} THEN None ELSE Some(CHOOSE s \in hits : TRUE)

\* str::to_lowercase on the names battery_state_to_name yields
to_lowercase(name) ==
    CASE name = "Discharging"  -> "discharging"
      [] name = "Charging"     -> "charging"
      [] name = "Not charging" -> "not charging"
      [] name = "Full"         -> "full"
      [] name = "Unknown"      -> "unknown"
      [] name = "At threshold" -> "at threshold"
      [] name = "Invalid"      -> "invalid"

Battery(state, now_uwh, full_uwh) ==
    [state |-> state, now_uwh |-> now_uwh, full_uwh |-> full_uwh]

\* Battery::level: (now * 100) / full, clamped to 100, as u8.  Energies are
\* micro-watt-hours of real batteries, far below 2^64 / 100: the u64 product
\* does not wrap.  full_uwh = 0 panics (division by zero): None.
MutLevelNoClamp(b) ==
    IF b.full_uwh = 0 THEN None ELSE Some((b.now_uwh * 100) \div b.full_uwh)

level(b) ==
    IF b.full_uwh = 0 THEN None
    ELSE LET l == (b.now_uwh * 100) \div b.full_uwh
         IN  Some(IF l > 100 THEN 100 ELSE l)

\* bs.iter().any(..) is \E over the indices, bs.iter().all(..) is \A
MutDischargingFirst(bs) ==
    IF (\E i \in 1..Len(bs) : bs[i].state = "Discharging") THEN "Discharging"
    ELSE IF (\E i \in 1..Len(bs) : bs[i].state = "Charging") THEN "Charging"
    ELSE IF (\A i \in 1..Len(bs) : bs[i].state = "Full") THEN "Full"
    ELSE IF (\A i \in 1..Len(bs) : \/ bs[i].state = "Unknown"
                                    \/ bs[i].state = "NotCharging"
                                    \/ bs[i].state = "Full")
         THEN "AtThreshold"
    ELSE "Discharging"

MutThresholdWithoutFull(bs) ==
    IF (\E i \in 1..Len(bs) : bs[i].state = "Charging") THEN "Charging"
    ELSE IF (\E i \in 1..Len(bs) : bs[i].state = "Discharging") THEN "Discharging"
    ELSE IF (\A i \in 1..Len(bs) : bs[i].state = "Full") THEN "Full"
    ELSE IF (\A i \in 1..Len(bs) : \/ bs[i].state = "Unknown"
                                    \/ bs[i].state = "NotCharging")
         THEN "AtThreshold"
    ELSE "Discharging"

MutNoFullBranch(bs) ==
    IF (\E i \in 1..Len(bs) : bs[i].state = "Charging") THEN "Charging"
    ELSE IF (\E i \in 1..Len(bs) : bs[i].state = "Discharging") THEN "Discharging"
    ELSE IF (\A i \in 1..Len(bs) : \/ bs[i].state = "Unknown"
                                    \/ bs[i].state = "NotCharging"
                                    \/ bs[i].state = "Full")
         THEN "AtThreshold"
    ELSE "Discharging"

\* the threshold branch without NotCharging
MutBranchWithoutNotCharging(bs) ==
    IF (\E i \in 1..Len(bs) : bs[i].state = "Charging") THEN "charging"
    ELSE IF (\E i \in 1..Len(bs) : bs[i].state = "Discharging") THEN "discharging"
    ELSE IF (\A i \in 1..Len(bs) : bs[i].state = "Full") THEN "full"
    ELSE IF (\A i \in 1..Len(bs) : \/ bs[i].state = "Unknown"
                                    \/ bs[i].state = "Full")
         THEN "threshold"
    ELSE "fallback"

\* The branch of the if chain get_global_battery takes: system.rs:93-111,
\* main.rs:259-277
global_branch(bs) ==
    IF (\E i \in 1..Len(bs) : bs[i].state = "Charging") THEN "charging"
    ELSE IF (\E i \in 1..Len(bs) : bs[i].state = "Discharging") THEN "discharging"
    ELSE IF (\A i \in 1..Len(bs) : bs[i].state = "Full") THEN "full"
    ELSE IF (\A i \in 1..Len(bs) : \/ bs[i].state = "Unknown"
                                    \/ bs[i].state = "NotCharging"
                                    \/ bs[i].state = "Full")
         THEN "threshold"
    ELSE "fallback"

\* get_global_battery's state, the value of the branch taken
global_state(bs) ==
    CASE global_branch(bs) = "charging"    -> "Charging"
      [] global_branch(bs) = "discharging" -> "Discharging"
      [] global_branch(bs) = "full"        -> "Full"
      [] global_branch(bs) = "threshold"   -> "AtThreshold"
      [] global_branch(bs) = "fallback"    -> "Discharging"

\* system.rs:92-118, main.rs:258-284
get_global_battery(bs) ==
    Battery(global_state(bs),
            SumSeq([i \in 1..Len(bs) |-> bs[i].now_uwh]),
            SumSeq([i \in 1..Len(bs) |-> bs[i].full_uwh]))

(***************************************************************************)
(* SpecAgg: the aggregator on bounded readings                             *)
(***************************************************************************)
MaxBatteries == 2

\* energy_now and energy_full of one unit, in uWh; full > 0 (spec, data model)
NowValues  == {0, 3000, 5000, 10000}
FullValues == {5000, 10000}

Readings == {Battery(s, n, f) : s \in BatteryState, n \in NowValues, f \in FullValues}

BatterySeqs == UNION {[1..n -> Readings] : n \in 0..MaxBatteries}

AggInit == batteries \in BatterySeqs /\ global = None

Aggregate ==
    /\ global = None
    /\ global' = Some(get_global_battery(batteries))
    /\ UNCHANGED batteries

(***************************************************************************)
(* The notification server and SingleNotification                          *)
(*                                                                         *)
(* A displayed notification (and the NotificationHandle the slot keeps for *)
(* it) is [owner, serial, summary, urgency]: owner names the slot that     *)
(* opened it and serial tells apart the notifications one slot has open,   *)
(* standing for the server's notification id.  `server` is the set of      *)
(* notifications displayed.  The world a slot call acts on is              *)
(* [slot, server, calls]; calls collects the requests sent to the server.  *)
(* The timeout argument of notification.rs's show only decorates the       *)
(* notification and is left out.                                           *)
(***************************************************************************)
World(s, srv, calls) == [slot |-> s, server |-> srv, calls |-> calls]

\* Notification::show(): the handle of the notification the server opens
NewHandle(owner, srv, summary, urgency) ==
    LET used == {n.serial : n \in {m \in srv : m.owner = owner}}
        k    == CHOOSE i \in 1..(Cardinality(used) + 1) :
                    /\ i \notin used
                    /\ \A j \in 1..(i - 1) : j \in used
    IN  [owner |-> owner, serial |-> k, summary |-> summary, urgency |-> urgency]

ShowCall(summary, ok)  == [op |-> "show", summary |-> summary, ok |-> ok]
CloseCall(hnd)         == [op |-> "close", summary |-> hnd.summary, ok |-> TRUE]

\* ---- notification.rs: summary is Option<String> -------------------------
notif_default == [hnd |-> None, summary |-> None]

notif_close(w) ==
    IF w.slot.hnd # None
    THEN LET hnd == Unwrap(w.slot.hnd)
         IN  World([hnd |-> None, summary |-> None],
                   w.server \ {hnd},
                   Append(w.calls, CloseCall(hnd)))
    ELSE w

MutShowAlways(owner, w, summary, urgency, ok) ==
    LET c == notif_close(w)
        h == NewHandle(owner, c.server, summary, urgency)
    IN  World([hnd |-> IF ok THEN Some(h) ELSE None, summary |-> Some(summary)],
              IF ok THEN c.server \cup {h} ELSE c.server,
              Append(c.calls, ShowCall(summary, ok)))

MutShowNoClose(owner, w, summary, urgency, ok) ==
    IF w.slot.summary # Some(summary)
    THEN LET h == NewHandle(owner, w.server, summary, urgency)
         IN  World([hnd |-> IF ok THEN Some(h) ELSE None, summary |-> Some(summary)],
                   IF ok THEN w.server \cup {h} ELSE w.server,
                   Append(w.calls, ShowCall(summary, ok)))
    ELSE w

\* ok: whether Notification::show() returned Ok (an Err is logged, hnd = None)
notif_show(owner, w, summary, urgency, ok) ==
    IF w.slot.summary # Some(summary)
    THEN LET c == notif_close(w)
             h == NewHandle(owner, c.server, summary, urgency)
         IN  World([hnd |-> IF ok THEN Some(h) ELSE None, summary |-> Some(summary)],
                   IF ok THEN c.server \cup {h} ELSE c.server,
                   Append(c.calls, ShowCall(summary, ok)))
    ELSE w

\* ---- main.rs: summary is a String, "" in a new slot ---------------------
main_new == [hnd |-> None, summary |-> ""]

\* hnd.take(); the summary stays
main_close(w) ==
    IF w.slot.hnd # None
    THEN LET hnd == Unwrap(w.slot.hnd)
         IN  World([hnd |-> None, summary |-> w.slot.summary],
                   w.server \ {hnd},
                   Append(w.calls, CloseCall(hnd)))
    ELSE w

\* show that does not compare the text with the one remembered
MutMainShowAlways(owner, w, summary, urgency, ok) ==
    LET c == main_close(w)
        h == NewHandle(owner, c.server, summary, urgency)
    IN  World([hnd |-> IF ok THEN Some(h) ELSE None, summary |-> summary],
              IF ok THEN c.server \cup {h} ELSE c.server,
              Append(c.calls, ShowCall(summary, ok)))

main_show(owner, w, summary, urgency, ok) ==
    IF w.slot.summary # summary
    THEN LET c == main_close(w)
             h == NewHandle(owner, c.server, summary, urgency)
         IN  World([hnd |-> IF ok THEN Some(h) ELSE None, summary |-> summary],
                   IF ok THEN c.server \cup {h} ELSE c.server,
                   Append(c.calls, ShowCall(summary, ok)))
    ELSE w

\* a Drop that closes nothing
MutDropLeaks(w) == w

\* impl Drop for SingleNotification
main_drop(w) == main_close(w)
notif_drop(w) == notif_close(w)

(***************************************************************************)
(* SpecSlot: show and close in any order on one slot of either             *)
(* implementation                                                          *)
(***************************************************************************)
Impls == {"notification.rs", "main.rs"}

Summaries == {"", "Battery low", "Battery critical"}
Urgencies == {"Normal", "Critical"}

\* A call on the slot: what was called, the slot and the server before it,
\* and the requests it sent to the server
\* A call on the slot, as the properties see it; failed tells whether the
\* server has refused a notification in this call or in one before it
Op(op, summary, before, srv, calls) ==
    [op |-> op, summary |-> summary, before |-> before, server |-> srv, calls |-> calls,
     failed |-> lastOp.failed \/ \E i \in 1..Len(calls) : ~calls[i].ok]

NoOp ==
    [op |-> "none", summary |-> "", before |-> [hnd |-> None, summary |-> None],
     server |-> {}, calls |-> <<>>, failed |-> FALSE]

\* The text a slot remembers, as Option<String>: main.rs keeps a String,
\* which is "" in a slot that remembers nothing
Remembered(s) == IF impl = "main.rs" THEN Some(s.summary) ELSE s.summary

NoText == IF impl = "main.rs" THEN Some("") ELSE None

SlotInit ==
    /\ impl \in Impls
    /\ slot = IF impl = "main.rs" THEN main_new ELSE notif_default
    /\ lastOp = NoOp
    /\ prevOp = NoOp
    /\ server = {}

Record(op, summary, w) ==
    /\ slot' = w.slot
    /\ server' = w.server
    /\ prevOp' = lastOp
    /\ lastOp' = Op(op, summary, slot, server, w.calls)
    /\ UNCHANGED impl

NotifShow ==
    /\ impl = "notification.rs"
    /\ \E summary \in Summaries, urgency \in Urgencies, ok \in BOOLEAN :
          Record("show", summary,
                 notif_show("slot", World(slot, server, <<>>), summary, urgency, ok))

NotifClose ==
    /\ impl = "notification.rs"
    /\ Record("close", "", notif_close(World(slot, server, <<>>)))

MainShow ==
    /\ impl = "main.rs"
    /\ \E summary \in Summaries, urgency \in Urgencies, ok \in BOOLEAN :
          Record("show", summary,
                 main_show("slot", World(slot, server, <<>>), summary, urgency, ok))

MainClose ==
    /\ impl = "main.rs"
    /\ Record("close", "", main_close(World(slot, server, <<>>)))

(***************************************************************************)
(* main.rs: Config and the poll loop.  The loop uses main.rs's own         *)
(* SingleNotification (main_show, main_close).                             *)
(***************************************************************************)
DefaultConfig ==
    [sleep_command |-> "systemctl suspend",
     interval_secs |-> 30,
     sleep_pct |-> 15,
     low_pct |-> 40,
     warn_on_mons_with_no_ac |-> 2,
     bluetooth_low_pct |-> 40]

\* main.rs:298
sleep_backoff == 60

\* The configurations explored: the defaults, and the monitor and Bluetooth
\* checks switched off (0 disables each)
Configs ==
    {DefaultConfig,
     [DefaultConfig EXCEPT !.warn_on_mons_with_no_ac = 0, !.bluetooth_low_pct = 0]}

\* main.rs:347: "don't do this more than once a minute"
MutSleepDueAtBackoff(start, epoch) == start >= epoch

sleep_due(start, epoch) == start > epoch

\* the level is tested before the state
MutLevelBeforeCharging(state, lvl, c) ==
    IF lvl <= c.sleep_pct THEN "critical"
    ELSE IF state = "Charging" THEN "charging"
    ELSE IF lvl <= c.low_pct THEN "low"
    ELSE "none"

\* main.rs:342-353: the branch of the level check a tick takes
level_branch(state, lvl, c) ==
    IF state = "Charging" THEN "charging"
    ELSE IF lvl <= c.sleep_pct THEN "critical"
    ELSE IF lvl <= c.low_pct THEN "low"
    ELSE "none"

\* main.rs:340-353 on the low slot; yields the world after it and whether the
\* sleep command ran
level_check(w, g, c, start, epoch, ok) ==
    LET branch == level_branch(g.state, Unwrap(level(g)), c)
    IN  CASE branch = "charging" ->
               [w |-> main_close(w), ran |-> FALSE]
          [] branch = "critical" ->
               [w |-> main_show("low", w, "Battery critical", "Critical", ok),
                ran |-> sleep_due(start, epoch)]
          [] branch = "low" ->
               [w |-> main_show("low", w, "Battery low", "Critical", ok),
                ran |-> FALSE]
          [] OTHER ->
               [w |-> w, ran |-> FALSE]

\* main.rs:355: whether the tick probes the monitors at all
mons_probed(g, c) == c.warn_on_mons_with_no_ac > 0 /\ g.state = "Discharging"

\* main.rs:355-368 on the monitor slot; mons is get_nr_connected_monitors(),
\* None when it failed
mon_check(w, g, c, mons, ok) ==
    IF mons_probed(g, c)
    THEN LET conn == IF mons = None THEN 0 ELSE Unwrap(mons)
         IN  IF conn >= c.warn_on_mons_with_no_ac
             THEN main_show("mon", w,
                            "Connected to " \o ToString(conn) \o " monitors but not AC",
                            "Critical", ok)
             ELSE main_close(w)
    ELSE main_close(w)

EmptyMap == [n \in {} |-> main_new]

\* main.rs:373-383: st is [notifs, server, calls]
RECURSIVE bbat_loop(_, _, _, _, _)
bbat_loop(bbats, i, st, c, ok) ==
    IF i > Len(bbats) THEN st
    ELSE LET bbat == bbats[i]
             cur  == IF bbat.name \in DOMAIN st.notifs
                     THEN st.notifs[bbat.name] ELSE main_new
             w0   == World(cur, st.server, st.calls)
             w    == IF bbat.level <= c.bluetooth_low_pct
                     THEN main_show(bbat.name, w0, bbat.name \o " battery low",
                                    "Critical", ok)
                     ELSE main_close(w0)
         IN  bbat_loop(bbats, i + 1,
                       [notifs |-> (bbat.name :> w.slot) @@ st.notifs,
                        server |-> w.server, calls |-> w.calls],
                       c, ok)

\* Dropping the slots of `names` (a removed map entry, or main returning)
RECURSIVE drop_all(_, _)
drop_all(names, st) ==
    IF names = {} THEN st
    ELSE LET n == CHOOSE x \in names : TRUE
             w == main_drop(World(st.notifs[n], st.server, st.calls))
         IN  drop_all(names \ {n},
                      [notifs |-> [m \in DOMAIN st.notifs \ {n} |-> st.notifs[m]],
                       server |-> w.server, calls |-> w.calls])

\* the map is never pruned
MutRetainAll(bbats, st) == st

\* main.rs:386: retain the devices present, the others are dropped
bbat_retain(bbats, st) ==
    drop_all({n \in DOMAIN st.notifs : \A i \in 1..Len(bbats) : bbats[i].name # n}, st)

\* main.rs:370-387; bbats is get_bluetooth_battery_levels(), None when it failed
bluetooth_check(st, c, bbats, ok) ==
    IF c.bluetooth_low_pct # 0
    THEN LET l == IF bbats = None THEN <<>> ELSE Unwrap(bbats)
         IN  bbat_retain(l, bbat_loop(l, 1, st, c, ok))
    ELSE st

(***************************************************************************)
(* Spec: the poll loop                                                     *)
(***************************************************************************)
\* No tick starts once the clock has passed MaxTime seconds
MaxTime == 80

\* get_batteries(): None is an Err; the readings have full_uwh > 0.  Their
\* global levels are 10 (Charging), 15 = sleep_pct and 40 = low_pct
\* (Discharging, the latter from two batteries) and 80 (AtThreshold)
TickBatteries ==
    {None,
     Some(<<>>),
     Some(<<Battery("Charging", 1000, 10000)>>),
     Some(<<Battery("Discharging", 1500, 10000)>>),
     Some(<<Battery("Discharging", 1000, 5000), Battery("Unknown", 3000, 5000)>>),
     Some(<<Battery("Unknown", 8000, 10000)>>)}

\* get_nr_connected_monitors(): None is an Err
TickMonitors == {None, Some(1), Some(2)}

BluetoothBattery(name, lvl) == [name |-> name, level |-> lvl]

\* get_bluetooth_battery_levels(): None is an Err; one device at
\* bluetooth_low_pct, or that device above it next to another one at it
TickBbats ==
    {None,
     Some(<<>>),
     Some(<<BluetoothBattery("headset", 40)>>),
     Some(<<BluetoothBattery("headset", 41), BluetoothBattery("mouse", 40)>>)}

\* Seconds a tick takes (start.elapsed() at main.rs:389)
ElapsedValues == {1, 30, 40}

\* Seconds between main.rs:299 and the first Instant::now() of the loop: the
\* timer, the logger and the signal handler are set up in between
StartupValues == {1}

\* What is known of the last iteration: its readings (nbat batteries; mons
\* and bbats are None when the tick did not probe, else Some of what the
\* probe returned, itself None when the probe failed), the requests made to
\* the server, the commands handed to sh -c, and the error main returned
NoTick ==
    [outcome |-> "none", start |-> 0, state |-> "Invalid", level |-> 0,
     prev_state |-> "Invalid", calls |-> <<>>, ran_sleep |-> FALSE,
     prev_run |-> None, last_run |-> None, elapsed |-> 0,
     notifier_failed |-> FALSE, commands |-> <<>>, nbat |-> 0,
     mons |-> None, bbats |-> None, error |-> ""]

AggIdle  == batteries = <<>> /\ global = None
SlotIdle == impl = "main.rs" /\ slot = main_new /\ lastOp = NoOp /\ prevOp = NoOp

MainInit ==
    /\ cfg \in Configs
    /\ state_notif = main_new
    /\ low_notif = main_new
    /\ mon_notif = main_new
    /\ bbat_notifs = EmptyMap
    /\ next_sleep_epoch = 0
    /\ clock \in StartupValues
    /\ should_term = FALSE
    /\ cancelled = None
    /\ pc = "top"
    /\ tick = NoTick
    /\ server = {}

MainIdle ==
    /\ cfg = DefaultConfig
    /\ state_notif = main_new
    /\ low_notif = main_new
    /\ mon_notif = main_new
    /\ bbat_notifs = EmptyMap
    /\ next_sleep_epoch = 0
    /\ clock = 0
    /\ should_term = FALSE
    /\ cancelled = None
    /\ pc = "top"
    /\ tick = NoTick

\* main returns: its locals are dropped in the reverse order of their
\* declaration (main.rs:295-303), each slot closing its notification.  w0 is
\* the state slot, the server and the requests of the iteration so far
drop_slots(w0) ==
    LET st == drop_all(DOMAIN bbat_notifs,
                       [notifs |-> bbat_notifs, server |-> w0.server, calls |-> w0.calls])
        w3 == main_drop(World(mon_notif, st.server, st.calls))
        w2 == main_drop(World(low_notif, w3.server, w3.calls))
        w1 == main_drop(World(w0.slot, w2.server, w2.calls))
    IN  [state |-> w1.slot, low |-> w2.slot, mon |-> w3.slot,
         notifs |-> st.notifs, server |-> w1.server, calls |-> w1.calls]

ReturnFrom(to, err, w0) ==
    \E d \in {drop_slots(w0)} :
        /\ pc' = to
        /\ state_notif' = d.state
        /\ low_notif' = d.low
        /\ mon_notif' = d.mon
        /\ bbat_notifs' = d.notifs
        /\ server' = d.server
        /\ tick' = [tick EXCEPT !.outcome = to, !.start = clock, !.calls = d.calls,
                                !.ran_sleep = FALSE, !.prev_run = tick.last_run,
                                !.commands = <<>>, !.nbat = 0, !.mons = None,
                                !.bbats = None, !.error = err]

\* main returns at the top of the loop, at get_batteries() or at the sleep
Return(to, err) == ReturnFrom(to, err, World(state_notif, server, <<>>))

\* main.rs:333-336
StateText(state) == "Battery now " \o to_lowercase(battery_state_to_name(state))

\* main.rs:321-389, one iteration of the loop up to start.elapsed()
TickBody(bs, mons, bbats, ok, elapsed) ==
    \E g \in {get_global_battery(Unwrap(bs))} :
    \E w1 \in {main_show("state", World(state_notif, server, <<>>),
                         StateText(g.state), "Normal", ok)} :
    \E lc \in {level_check(World(low_notif, w1.server, w1.calls), g, cfg,
                           clock, next_sleep_epoch, ok)} :
    \E w3 \in {mon_check(World(mon_notif, lc.w.server, lc.w.calls), g, cfg, mons, ok)} :
    \E st \in {bluetooth_check([notifs |-> bbat_notifs, server |-> w3.server,
                                calls |-> w3.calls], cfg, bbats, ok)} :
        /\ state_notif' = w1.slot
        /\ low_notif' = lc.w.slot
        /\ mon_notif' = w3.slot
        /\ bbat_notifs' = st.notifs
        /\ server' = st.server
        /\ next_sleep_epoch' = IF lc.ran THEN clock + sleep_backoff ELSE next_sleep_epoch
        /\ clock' = clock + elapsed
        /\ pc' = "sleep"
        /\ tick' = [outcome |-> "ticked", start |-> clock, state |-> g.state,
                    level |-> Unwrap(level(g)), prev_state |-> tick.state,
                    calls |-> st.calls, ran_sleep |-> lc.ran,
                    prev_run |-> tick.last_run,
                    last_run |-> IF lc.ran THEN Some(clock) ELSE tick.last_run,
                    elapsed |-> elapsed,
                    commands |-> IF lc.ran THEN <<cfg.sleep_command>> ELSE <<>>,
                    nbat |-> Len(Unwrap(bs)),
                    mons |-> IF mons_probed(g, cfg) THEN Some(mons) ELSE None,
                    bbats |-> IF cfg.bluetooth_low_pct # 0 THEN Some(bbats) ELSE None,
                    error |-> "",
                    notifier_failed |->
                        \/ tick.notifier_failed
                        \/ \E i \in 1..Len(st.calls) :
                              st.calls[i].op = "show" /\ ~st.calls[i].ok]
        /\ UNCHANGED <<cfg, should_term, cancelled>>

\* an iteration that looks for the empty vector only after it has
\* aggregated the readings and shown the state
MutTickChecksLate ==
    /\ pc = "top"
    /\ ~should_term
    /\ clock <= MaxTime
    /\ \E bs \in TickBatteries :
          IF bs = None
          THEN /\ Return("failed", "failed to get list of batteries")
               /\ UNCHANGED <<cfg, next_sleep_epoch, clock, should_term, cancelled>>
          ELSE IF bs = Some(<<>>)
          THEN /\ ReturnFrom("failed", "no batteries detected",
                             main_show("state", World(state_notif, server, <<>>),
                                       StateText(global_state(Unwrap(bs))),
                                       "Normal", TRUE))
               /\ UNCHANGED <<cfg, next_sleep_epoch, clock, should_term, cancelled>>
          ELSE \E mons \in TickMonitors, bbats \in TickBbats, ok \in BOOLEAN,
                  elapsed \in ElapsedValues :
                  TickBody(bs, mons, bbats, ok, elapsed)

\* while !should_term.load(): one iteration, or main returning an error when
\* get_batteries() fails or finds no battery.  The readings, the probes and
\* the notifier's answer come from the sets given
TickOn(Batteries, Monitors, Bbats, Oks) ==
    /\ pc = "top"
    /\ ~should_term
    /\ clock <= MaxTime
    /\ \E bs \in Batteries :
          IF bs = None \/ bs = Some(<<>>)
          THEN /\ Return("failed", IF bs = None
                                   THEN "failed to get list of batteries"
                                   ELSE "no batteries detected")
               /\ UNCHANGED <<cfg, next_sleep_epoch, clock, should_term, cancelled>>
          ELSE \E mons \in Monitors, bbats \in Bbats, ok \in Oks,
                  elapsed \in ElapsedValues :
                  TickBody(bs, mons, bbats, ok, elapsed)

Tick == TickOn(TickBatteries, TickMonitors, TickBbats, BOOLEAN)

\* The iterations of SpecLive: one battery that charges or discharges, or
\* none; the probes fail and the notifier works
LiveBatteries ==
    {None,
     Some(<<>>),
     Some(<<Battery("Charging", 1000, 10000)>>),
     Some(<<Battery("Discharging", 8000, 10000)>>)}

TickLive == TickOn(LiveBatteries, {None}, {None}, {TRUE})

\* a sleep of one interval whatever the tick took
MutSleepWholeInterval(interval, elapsed) == interval

\* main.rs:392: the duration handed to timer.sleep
sleep_duration(interval, elapsed) == interval - elapsed

\* main.rs:391-396: sleep what is left of the interval, if anything is; a
\* cancellation ends the sleep at the instant of the signal (Interrupted,
\* which is Ok), at once when it was pending before the sleep began; any
\* other error of the timer makes main return it
Sleep ==
    /\ pc = "sleep"
    /\ LET interval == cfg.interval_secs
           elapsed  == tick.elapsed
       IN  IF elapsed < interval
           THEN \/ /\ cancelled = None
                   /\ clock' = clock + sleep_duration(interval, elapsed)
                   /\ pc' = "top"
                   /\ UNCHANGED <<cancelled, state_notif, low_notif, mon_notif,
                                  bbat_notifs, server, tick>>
                \/ /\ cancelled # None
                   /\ clock' = Unwrap(cancelled)
                   /\ cancelled' = None
                   /\ pc' = "top"
                   /\ UNCHANGED <<state_notif, low_notif, mon_notif,
                                  bbat_notifs, server, tick>>
                \/ /\ Return("failed", "timer")
                   /\ UNCHANGED <<clock, cancelled>>
           ELSE /\ pc' = "top"
                /\ UNCHANGED <<clock, cancelled, state_notif, low_notif, mon_notif,
                               bbat_notifs, server, tick>>
    /\ UNCHANGED <<cfg, next_sleep_epoch, should_term>>

\* The instants a signal arrives at: now (during the tick that just ended,
\* or before the sleep begins), or, when a sleep is about to begin, one
\* second into it
SignalTimes ==
    IF pc = "sleep" /\ tick.elapsed < cfg.interval_secs
    THEN {clock, clock + 1}
    ELSE {clock}

\* a handler that sets the flag and leaves the timer alone
MutSignalNoCancel ==
    /\ pc \in {"top", "sleep"}
    /\ should_term' = TRUE
    /\ UNCHANGED <<cfg, state_notif, low_notif, mon_notif, bbat_notifs, server,
                   next_sleep_epoch, clock, cancelled, pc, tick>>

\* main.rs:307-311, the ctrlc handler; canceller.cancel() is taken to
\* succeed, and a cancellation already pending stays as it is
Signal ==
    /\ pc \in {"top", "sleep"}
    /\ should_term' = TRUE
    /\ \E t \in SignalTimes :
          cancelled' = IF cancelled # None THEN cancelled ELSE Some(t)
    /\ UNCHANGED <<cfg, state_notif, low_notif, mon_notif, bbat_notifs, server,
                   next_sleep_epoch, clock, pc, tick>>

\* main.rs:320 and 399: the loop sees should_term and main returns Ok(())
Exit ==
    /\ pc = "top"
    /\ should_term
    /\ Return("done", "")
    /\ UNCHANGED <<cfg, next_sleep_epoch, clock, should_term, cancelled>>

(***************************************************************************)
(* The specifications                                                      *)
(***************************************************************************)
Init == MainInit /\ AggIdle /\ SlotIdle

Next ==
    \/ Tick /\ UNCHANGED <<aggVars, slotVars>>
    \/ Sleep /\ UNCHANGED <<aggVars, slotVars>>
    \/ Signal /\ UNCHANGED <<aggVars, slotVars>>
    \/ Exit /\ UNCHANGED <<aggVars, slotVars>>

Spec == Init /\ [][Next]_vars

\* The loop with few readings, and the fairness of its thread: the process
\* is scheduled, so a sleep that can return returns and the loop that can
\* leave leaves.  Nothing makes a signal arrive
NextLive ==
    \/ TickLive /\ UNCHANGED <<aggVars, slotVars>>
    \/ Sleep /\ UNCHANGED <<aggVars, slotVars>>
    \/ Signal /\ UNCHANGED <<aggVars, slotVars>>
    \/ Exit /\ UNCHANGED <<aggVars, slotVars>>

SpecLive ==
    /\ Init
    /\ [][NextLive]_vars
    /\ WF_vars(Sleep /\ UNCHANGED <<aggVars, slotVars>>)
    /\ WF_vars(Exit /\ UNCHANGED <<aggVars, slotVars>>)

InitAgg == AggInit /\ SlotIdle /\ MainIdle /\ server = {}

NextAgg == Aggregate /\ UNCHANGED <<slotVars, server, mainVars>>

SpecAgg == InitAgg /\ [][NextAgg]_vars

InitSlot == SlotInit /\ AggIdle /\ MainIdle

NextSlot ==
    \/ NotifShow /\ UNCHANGED <<aggVars, mainVars>>
    \/ NotifClose /\ UNCHANGED <<aggVars, mainVars>>
    \/ MainShow /\ UNCHANGED <<aggVars, mainVars>>
    \/ MainClose /\ UNCHANGED <<aggVars, mainVars>>

SpecSlot == InitSlot /\ [][NextSlot]_vars

(***************************************************************************)
(* Properties of the aggregator (SpecAgg)                                  *)
(***************************************************************************)
Aggregated == global # None /\ batteries # <<>>

States(bs) == {bs[i].state : i \in 1..Len(bs)}

\* The energies of the readings, summed over the index set
RECURSIVE SumOver(_, _, _)
SumOver(bs, I, field) ==
    IF I = {} THEN 0
    ELSE LET i == CHOOSE j \in I : TRUE
         IN  bs[i][field] + SumOver(bs, I \ {i}, field)

TotalNow(bs)  == SumOver(bs, DOMAIN bs, "now_uwh")
TotalFull(bs) == SumOver(bs, DOMAIN bs, "full_uwh")

\* C1: whenever at least one reading of a non-empty set is Charging, the
\* global state is Charging, whatever the other readings' states are.
C1_AnyChargingIsCharging ==
    (Aggregated /\ "Charging" \in States(batteries))
        => Unwrap(global).state = "Charging"

C1_Witness ==
    /\ Aggregated
    /\ Len(batteries) = 2
    /\ batteries[1].state = "Discharging"
    /\ batteries[2].state = "Charging"
    /\ Unwrap(global).state = "Charging"

\* C2: readings all in {Unknown, NotCharging, Full}, none Charging, none
\* Discharging and not all Full, give the global state AtThreshold.
C2_MixedIdleIsAtThreshold ==
    (/\ Aggregated
     /\ States(batteries) \subseteq {"Unknown", "NotCharging", "Full"}
     /\ States(batteries) # {"Full"})
        => Unwrap(global).state = "AtThreshold"

C2_Witness ==
    /\ Aggregated
    /\ Len(batteries) = 2
    /\ batteries[1].state = "Full"
    /\ batteries[2].state = "Unknown"
    /\ Unwrap(global).state = "AtThreshold"

\* C3: when every reading of a non-empty set is Full the global state is
\* Full, and when moreover each reading has energy_now = energy_full the
\* global level is 100.
C3_AllFullIsFull ==
    (Aggregated /\ States(batteries) = {"Full"})
        => /\ Unwrap(global).state = "Full"
           /\ (\A i \in DOMAIN batteries : batteries[i].now_uwh = batteries[i].full_uwh)
                 => level(Unwrap(global)) = Some(100)

C3_Witness ==
    /\ Aggregated
    /\ Len(batteries) = 2
    /\ States(batteries) = {"Full"}
    /\ batteries[1].full_uwh # batteries[2].full_uwh
    /\ \A i \in DOMAIN batteries : batteries[i].now_uwh = batteries[i].full_uwh
    /\ Unwrap(global).state = "Full"
    /\ level(Unwrap(global)) = Some(100)

\* C4: the global level is min(100, floor(sum(now) * 100 / sum(full))), the
\* energies being summed over all batteries before the division, and so lies
\* in 0..100, also when the summed energy_now exceeds the summed energy_full.
C4_LevelIsClampedRatioOfSums ==
    Aggregated
        => /\ level(Unwrap(global)) =
                Some(Min(100, (TotalNow(batteries) * 100) \div TotalFull(batteries)))
           /\ Unwrap(level(Unwrap(global))) \in 0..100

C4_Witness ==
    /\ Aggregated
    /\ Len(batteries) = 2
    /\ TotalNow(batteries) > TotalFull(batteries)
    /\ batteries[1].now_uwh < batteries[1].full_uwh
    /\ level(Unwrap(global)) = Some(100)

(***************************************************************************)
(* Properties of SingleNotification (SpecSlot)                             *)
(***************************************************************************)
Shows(calls)  == {i \in 1..Len(calls) : calls[i].op = "show"}

\* C5: show is idempotent on identical text.  Of two consecutive show calls
\* on one slot with the same summary the second sends nothing to the server
\* (no show, no close), so the server receives at most one show for the two;
\* it receives exactly one when the slot did not already remember that text
\* before the first call.
C5_ShowIdempotent ==
    (/\ lastOp.op = "show"
     /\ prevOp.op = "show"
     /\ lastOp.summary = prevOp.summary)
        => /\ lastOp.calls = <<>>
           /\ slot = lastOp.before
           /\ server = lastOp.server
           /\ Cardinality(Shows(prevOp.calls)) <= 1
           /\ Remembered(prevOp.before) # Some(prevOp.summary)
                 => Cardinality(Shows(prevOp.calls)) = 1

C5_Witness ==
    /\ lastOp.op = "show"
    /\ prevOp.op = "show"
    /\ lastOp.summary = prevOp.summary
    /\ Remembered(prevOp.before) # Some(prevOp.summary)
    /\ Cardinality(Shows(prevOp.calls)) = 1
    /\ lastOp.calls = <<>>
    /\ slot.hnd # None

\* C6: after any sequence of show and close calls the slot owns at most one
\* live notification; a show with text B on a slot displaying A closes A's
\* notification before it opens B's.
C6_AtMostOneLive ==
    /\ Cardinality(server) <= 1
    /\ server = slot.hnd
    /\ (/\ lastOp.op = "show"
        /\ lastOp.before.hnd # None
        /\ lastOp.calls # <<>>)
          => /\ Len(lastOp.calls) = 2
             /\ lastOp.calls[1] = CloseCall(Unwrap(lastOp.before.hnd))
             /\ lastOp.calls[2].op = "show"
             /\ lastOp.calls[2].summary = lastOp.summary

C6_Witness ==
    /\ lastOp.op = "show"
    /\ lastOp.before.hnd # None
    /\ Unwrap(lastOp.before.hnd).summary = "Battery low"
    /\ lastOp.summary = "Battery critical"
    /\ Len(lastOp.calls) = 2
    /\ slot.hnd # None
    /\ Unwrap(slot.hnd).summary = "Battery critical"
    /\ server = slot.hnd

\* C7: close() on a slot with nothing shown changes nothing; close() on a
\* slot with a live notification closes it and clears the remembered text,
\* so that a later show with the text displayed before the close opens a new
\* notification instead of being suppressed as a duplicate.
C7_CloseClearsText ==
    /\ (lastOp.op = "close" /\ lastOp.before.hnd = None)
          => /\ slot = lastOp.before
             /\ server = lastOp.server
             /\ lastOp.calls = <<>>
    /\ (lastOp.op = "close" /\ lastOp.before.hnd # None)
          => /\ lastOp.calls = <<CloseCall(Unwrap(lastOp.before.hnd))>>
             /\ Unwrap(lastOp.before.hnd) \notin server
             /\ slot.hnd = None
             /\ Remembered(slot) = NoText
    /\ (/\ prevOp.op = "close"
        /\ prevOp.before.hnd # None
        /\ lastOp.op = "show"
        /\ Remembered(prevOp.before) = Some(lastOp.summary))
          => Shows(lastOp.calls) # {}

\* C7 as it holds of notification.rs alone
CloseClearsTextInModule == impl = "notification.rs" => C7_CloseClearsText

\* close() of main.rs with a live notification does close it
MainCloseCloses ==
    (impl = "main.rs" /\ lastOp.op = "close" /\ lastOp.before.hnd # None)
        => /\ lastOp.calls = <<CloseCall(Unwrap(lastOp.before.hnd))>>
           /\ server = {}
           /\ slot.hnd = None

(***************************************************************************)
(* Properties of the poll loop (Spec).  tick describes the last iteration; *)
(* the state that follows a tick is the end of that tick.                  *)
(***************************************************************************)
Ticked == tick.outcome = "ticked"

\* The notifications of the low-battery slot the server displays
LowLive == {n \in server : n.owner = "low"}

LowSlotDisplays(text) ==
    /\ low_notif.hnd # None
    /\ Unwrap(low_notif.hnd) \in server
    /\ Unwrap(low_notif.hnd).summary = text

CriticalTick == Ticked /\ tick.state # "Charging" /\ tick.level <= cfg.sleep_pct

LowTick ==
    /\ Ticked
    /\ tick.state # "Charging"
    /\ cfg.sleep_pct < tick.level
    /\ tick.level <= cfg.low_pct

\* C8: at the end of every tick in which the global state is Charging or the
\* global level is greater than low_pct, the low-battery slot has no live
\* notification, whatever it displayed after the previous ticks.
C8_LowSlotClosedAboveLow ==
    (Ticked /\ (tick.state = "Charging" \/ tick.level > cfg.low_pct))
        => /\ low_notif.hnd = None
           /\ LowLive = {}

\* What main.rs does: a Charging tick leaves the low slot closed
LowSlotClosedWhenCharging ==
    (Ticked /\ tick.state = "Charging") => (low_notif.hnd = None /\ LowLive = {})

\* C9: on a tick with state not Charging the critical band takes precedence
\* over the low band: level <= sleep_pct shows the critical alert and never
\* the low alert; sleep_pct < level <= low_pct shows the low alert, no
\* critical alert, and runs no suspend command.  (Stated for the ticks before
\* which the notification server never refused a notification.)
C9_CriticalBeforeLow ==
    ~tick.notifier_failed
        => /\ CriticalTick
                => /\ LowSlotDisplays("Battery critical")
                   /\ \A n \in server : n.summary # "Battery low"
           /\ LowTick
                => /\ LowSlotDisplays("Battery low")
                   /\ \A n \in server : n.summary # "Battery critical"
                   /\ ~tick.ran_sleep

\* What main.rs does: the text the low slot is told to show follows the
\* precedence, and the low band runs no suspend command
LevelBranchPrecedence ==
    /\ CriticalTick
          => /\ low_notif.summary = "Battery critical"
             /\ \A n \in server : n.summary # "Battery low"
    /\ LowTick
          => /\ low_notif.summary = "Battery low"
             /\ \A n \in server : n.summary # "Battery critical"
             /\ ~tick.ran_sleep

\* C10: the suspend command runs on the first tick in the critical band; on
\* a later critical tick it runs if and only if more than 60 seconds have
\* passed since its last run; so two runs are never 60 seconds or less
\* apart.  (A run is timed by the start of its tick, as main.rs times it.)
C10_SuspendBackoff ==
    /\ (CriticalTick /\ tick.prev_run = None) => tick.ran_sleep
    /\ (CriticalTick /\ tick.prev_run # None)
          => (tick.ran_sleep <=> tick.start - Unwrap(tick.prev_run) > sleep_backoff)
    /\ (Ticked /\ tick.ran_sleep /\ tick.prev_run # None)
          => tick.start - Unwrap(tick.prev_run) > sleep_backoff

C10_Witness ==
    /\ CriticalTick
    /\ tick.ran_sleep
    /\ tick.prev_run # None
    /\ tick.start - Unwrap(tick.prev_run) > sleep_backoff

\* a critical tick exactly sleep_backoff after the last run does not run it
SkippedAtBackoff ==
    /\ CriticalTick
    /\ ~tick.ran_sleep
    /\ tick.prev_run # None
    /\ tick.start - Unwrap(tick.prev_run) = sleep_backoff

\* The step is an iteration of the loop that ran to its end
NewTick == tick' # tick /\ Ticked'

\* The command CustomCommands.low of config.rs names
LowCommand == "low"

\* C11: the "entered low" command runs exactly once per continuous run of
\* ticks in the low band (sleep_pct < level <= low_pct, not Charging): it
\* runs on the first tick of the stay, on none of the following ticks of the
\* stay, and again on the first tick after the level left the band and
\* re-entered it.
C11_LowCommandOncePerStay ==
    [][(NewTick /\ LowTick')
          => ((\E i \in 1..Len(tick'.commands) : tick'.commands[i] = LowCommand)
                 <=> ~LowTick)]_vars

\* What main.rs does: the only command a tick runs is sleep_command
OnlySleepCommand ==
    \A i \in 1..Len(tick.commands) : tick.commands[i] = cfg.sleep_command

\* The state notifications the last tick issued to the notifier
StateShows ==
    {i \in Shows(tick.calls) :
        \E s \in BatteryState : tick.calls[i].summary = StateText(s)}

\* C12: a tick issues the state notification "Battery now <state>" to the
\* notifier if and only if its global state differs from the global state of
\* the previous tick, the first tick counting as a change; it then issues it
\* once, with the text of the tick's state.  A tick with the state of the
\* previous one issues none, whatever the levels.
C12_StateShownIffChanged ==
    Ticked
        => /\ (StateShows # {}) <=> (tick.state # tick.prev_state)
           /\ Cardinality(StateShows) <= 1
           /\ \A i \in StateShows : tick.calls[i].summary = StateText(tick.state)

\* C12, the silent half with the levels spelled out: a tick that follows a
\* tick of the same state and another level issues no state notification
SameStateOtherLevelIsSilent ==
    [][(NewTick /\ Ticked /\ tick'.state = tick.state /\ tick'.level # tick.level)
          => \A i \in Shows(tick'.calls) :
                \A s \in BatteryState : tick'.calls[i].summary # StateText(s)]_vars

\* a later tick whose state changed, and the notification it issued
C12_Witness ==
    /\ Ticked
    /\ tick.prev_state \in BatteryState \ {"Invalid", tick.state}
    /\ StateShows # {}

\* a later tick whose state did not change issued none
C12_SilentWitness ==
    /\ Ticked
    /\ tick.prev_state = tick.state
    /\ StateShows = {}

\* The notifications of the monitor slot the server displays
MonLive == {n \in server : n.owner = "mon"}

\* The monitor count the last tick worked with: unwrap_or(0) of the probe
TickConn ==
    IF tick.mons = None \/ Unwrap(tick.mons) = None THEN 0
    ELSE Unwrap(Unwrap(tick.mons))

MonWarningDue ==
    /\ cfg.warn_on_mons_with_no_ac > 0
    /\ tick.state = "Discharging"
    /\ TickConn >= cfg.warn_on_mons_with_no_ac

MonProbeFailed == tick.mons = Some(None)

\* C13: at the end of every tick the monitors-without-AC slot displays a
\* warning if and only if the threshold is greater than 0, the global state
\* is Discharging and the probed monitor count is at least the threshold; a
\* failed probe counts as 0 monitors, so that the warning is closed, the
\* tick runs to its end and the loop goes on.  (Stated for the ticks before
\* which the notification server never refused a notification.)
C13_MonWarningIffDue ==
    (Ticked /\ ~tick.notifier_failed)
        => /\ MonWarningDue
                => /\ mon_notif.hnd # None
                   /\ MonLive = {Unwrap(mon_notif.hnd)}
                   /\ Unwrap(mon_notif.hnd).summary =
                         "Connected to " \o ToString(TickConn) \o " monitors but not AC"
           /\ ~MonWarningDue => (mon_notif.hnd = None /\ MonLive = {})
           /\ MonProbeFailed
                => (mon_notif.hnd = None /\ MonLive = {} /\ pc \in {"sleep", "top"})

\* What main.rs does: a tick without the condition leaves no warning, and a
\* failed probe is such a tick and does not end the loop
MonWarningClosedUnlessDue ==
    Ticked
        => /\ ~MonWarningDue => (mon_notif.hnd = None /\ MonLive = {})
           /\ MonProbeFailed
                => (~MonWarningDue /\ tick.error = "" /\ pc \in {"sleep", "top"})

\* The devices the last tick's Bluetooth probe reported: none when it failed
TickDevices ==
    IF tick.bbats = None \/ Unwrap(tick.bbats) = None THEN <<>>
    ELSE Unwrap(Unwrap(tick.bbats))

DeviceNames == {TickDevices[i].name : i \in 1..Len(TickDevices)}

\* The notifications of Bluetooth slots the server displays
BbatLive == {n \in server : n.owner \notin {"state", "low", "mon"}}

\* C14: with bluetooth_low_pct # 0, at the end of every tick the Bluetooth
\* slot map holds exactly the device names the tick's probe reported (none
\* when the probe failed): a device tracked before and not reported has its
\* slot removed and its notification closed within the tick, so the server
\* displays no notification of a device that is not reported.
C14_MapHoldsReportedDevices ==
    (Ticked /\ cfg.bluetooth_low_pct # 0)
        => /\ DOMAIN bbat_notifs = DeviceNames
           /\ \A n \in BbatLive : n.owner \in DeviceNames
           /\ \A n \in BbatLive : bbat_notifs[n.owner].hnd = Some(n)

\* a device that displayed its alert is gone from the readings (here the
\* probe failed): its notification was closed and its slot removed
C14_Witness ==
    /\ Ticked
    /\ cfg.bluetooth_low_pct # 0
    /\ tick.bbats = Some(None)
    /\ \E i \in 1..Len(tick.calls) :
          tick.calls[i] = [op |-> "close", summary |-> "mouse battery low", ok |-> TRUE]
    /\ DOMAIN bbat_notifs = {}

\* one device is kept while the other one is pruned
C14_PrunedOneOfTwo ==
    /\ Ticked
    /\ DOMAIN bbat_notifs = {"headset"}
    /\ \E i \in 1..Len(tick.calls) :
          tick.calls[i] = [op |-> "close", summary |-> "mouse battery low", ok |-> TRUE]

\* The slot of device `name` displays its low-battery alert
BbatSlotDisplays(name) ==
    /\ name \in DOMAIN bbat_notifs
    /\ bbat_notifs[name].hnd # None
    /\ Unwrap(bbat_notifs[name].hnd) \in server
    /\ Unwrap(bbat_notifs[name].hnd).summary = name \o " battery low"

\* C19: with bluetooth_low_pct # 0, at the end of every tick the slot of
\* each reported Bluetooth device displays "<name> battery low" if and only
\* if the device's level is <= bluetooth_low_pct; with bluetooth_low_pct = 0
\* no Bluetooth slot is ever created or shown.  (Stated for the ticks before
\* which the notification server never refused a notification; the devices
\* of a tick have distinct names.)
C19_BbatAlertIffLow ==
    /\ (Ticked /\ cfg.bluetooth_low_pct # 0 /\ ~tick.notifier_failed)
          => \A i \in 1..Len(TickDevices) :
                BbatSlotDisplays(TickDevices[i].name)
                    <=> TickDevices[i].level <= cfg.bluetooth_low_pct
    /\ cfg.bluetooth_low_pct = 0 => (DOMAIN bbat_notifs = {} /\ BbatLive = {})

\* What main.rs does: a device above bluetooth_low_pct displays no alert, a
\* device at or below it has its slot told to show the alert, and
\* bluetooth_low_pct = 0 switches the slots off
BbatAlertClosedAboveLow ==
    /\ (Ticked /\ cfg.bluetooth_low_pct # 0)
          => \A i \in 1..Len(TickDevices) :
                IF TickDevices[i].level <= cfg.bluetooth_low_pct
                THEN bbat_notifs[TickDevices[i].name].summary
                        = TickDevices[i].name \o " battery low"
                ELSE ~BbatSlotDisplays(TickDevices[i].name)
    /\ cfg.bluetooth_low_pct = 0 => (DOMAIN bbat_notifs = {} /\ BbatLive = {})

\* The instant the last tick's processing ended (start + start.elapsed())
TickEnd == tick.start + tick.elapsed

\* C15: when a tick's processing takes as long as the interval or longer,
\* the next tick does not start at once: the next wake is the time at the
\* end of the tick plus one interval, so that two ticks never run back to
\* back with a zero or negative sleep.
C15_LongTickWaitsInterval ==
    [][(NewTick /\ Ticked /\ tick.elapsed >= cfg.interval_secs)
          => tick'.start = TickEnd + cfg.interval_secs]_vars

\* What main.rs does: after such a tick the next one starts at once
LongTickNotSlept ==
    [][(NewTick /\ Ticked /\ tick.elapsed >= cfg.interval_secs)
          => tick'.start = TickEnd]_vars

\* C20: when a tick takes less than the interval and no termination signal
\* arrives, the loop sleeps the interval minus the time the tick took, so
\* that the next tick starts one interval after the start of this one: the
\* durations of the ticks do not add up as drift.  (A tick starts only while
\* the termination flag is unset, so no signal arrived before the next tick.)
C20_NextTickOneIntervalLater ==
    [][(NewTick /\ Ticked /\ tick.elapsed < cfg.interval_secs)
          => tick'.start = tick.start + cfg.interval_secs]_vars

\* the same at the top of the loop, before the next tick starts
AwakeOneIntervalLater ==
    (pc = "top" /\ Ticked /\ tick.elapsed < cfg.interval_secs /\ ~should_term)
        => clock = tick.start + cfg.interval_secs

\* the loop is back at its top after the sleep that followed a short tick,
\* one interval after the tick started, and no signal has arrived
C20_Witness ==
    /\ pc = "top"
    /\ Ticked
    /\ tick.elapsed < cfg.interval_secs
    /\ tick.elapsed > 0
    /\ ~should_term
    /\ clock = tick.start + cfg.interval_secs
    /\ clock <= MaxTime

\* main has returned: Ok(()) after a signal, or an error
Exited == pc \in {"done", "failed"}

\* The close requests of the last step of the loop
Closes(calls) == {i \in 1..Len(calls) : calls[i].op = "close"}

\* C17: when the daemon exits, by a termination signal or by a fatal error,
\* no notification opened by any slot (state, low/critical, monitors, or a
\* Bluetooth device) is still live: the server displays none and no slot
\* holds a handle.
C17_NothingLiveAtExit ==
    Exited
        => /\ server = {}
           /\ state_notif.hnd = None
           /\ low_notif.hnd = None
           /\ mon_notif.hnd = None
           /\ \A n \in DOMAIN bbat_notifs : bbat_notifs[n].hnd = None

\* the daemon exits on a signal and its teardown closes the notifications
\* of all four kinds of slot
C17_Witness ==
    /\ pc = "done"
    /\ server = {}
    /\ {tick.calls[i].summary : i \in Closes(tick.calls)}
          = {"Battery now discharging", "Battery critical",
             "Connected to 2 monitors but not AC", "headset battery low"}

\* the daemon exits on a fatal error and its teardown closes notifications
ClosedAtFatalError ==
    /\ pc = "failed"
    /\ server = {}
    /\ Cardinality(Closes(tick.calls)) >= 3

\* C18: on a tick in which the battery reader returns an empty set of
\* readings the daemon terminates with an error before aggregating: it
\* shows no notification and runs no command in that tick, and a global
\* state is only ever computed from at least one reading (the empty set
\* would reduce to Full).  The close requests of the teardown are the only
\* requests of such a tick.
C18_EmptyReadingsAreFatal ==
    /\ tick.error = "no batteries detected"
          => /\ pc = "failed"
             /\ Shows(tick.calls) = {}
             /\ tick.commands = <<>>
    /\ Ticked => tick.nbat > 0

\* an empty set of readings after a tick that displayed notifications
C18_Witness ==
    /\ pc = "failed"
    /\ tick.error = "no batteries detected"
    /\ tick.state = "Discharging"
    /\ Closes(tick.calls) # {}
    /\ Shows(tick.calls) = {}

\* The steps of C16, once the flag is set: it stays set; no iteration
\* starts; the sleep that was about to begin or in progress ends at the
\* instant of the signal, before its time is up (and a tick that left no
\* time to sleep is followed by no sleep); main returns Ok(()), unless the
\* timer failed with an error of its own.  The signal itself leaves the work
\* of the iteration it arrives in as it is
SignalStep ==
    /\ should_term => should_term'
    /\ should_term => ~NewTick
    /\ (~should_term /\ should_term')
          => UNCHANGED <<pc, tick, server, state_notif, low_notif, mon_notif,
                         bbat_notifs, next_sleep_epoch>>
    /\ (should_term /\ pc = "sleep" /\ pc' = "top")
          => IF tick.elapsed < cfg.interval_secs
             THEN /\ cancelled # None
                  /\ clock' = Unwrap(cancelled)
                  /\ clock' < tick.start + cfg.interval_secs
             ELSE clock' = clock
    /\ (should_term /\ Exited')
          => (pc' = "done" \/ (pc = "sleep" /\ tick'.error = "timer"))

SignalNeverLostStepwise == [][SignalStep]_vars

ExitedOnSignal == pc = "done" /\ should_term /\ tick.error = ""

\* C21: the suspend command is never run on a tick whose global state is
\* Charging, whatever the level (also a level <= sleep_pct), and never on a
\* tick whose level is greater than sleep_pct.
C21_NoSuspendWhenChargingOrAbove ==
    (Ticked /\ (tick.state = "Charging" \/ tick.level > cfg.sleep_pct))
        => /\ ~tick.ran_sleep
           /\ tick.commands = <<>>

\* a Charging tick at or below sleep_pct, at a time the backoff would have
\* let the command run: it did not
C21_Witness ==
    /\ Ticked
    /\ tick.state = "Charging"
    /\ tick.level <= cfg.sleep_pct
    /\ sleep_due(tick.start, next_sleep_epoch)
    /\ ~tick.ran_sleep

\* a tick above sleep_pct, not Charging, at such a time
NoSuspendAboveSleepPct ==
    /\ Ticked
    /\ tick.state # "Charging"
    /\ tick.level > cfg.sleep_pct
    /\ sleep_due(tick.start, next_sleep_epoch)
    /\ ~tick.ran_sleep

(***************************************************************************)
(* More of the aggregator (SpecAgg)                                        *)
(***************************************************************************)
AllHardware(bs) == \A i \in 1..Len(bs) : bs[i].state \in HardwareStates

\* C22: for every non-empty set of readings whose states are all hardware
\* states, get_global_battery returns a state in {Charging, Discharging,
\* Full, AtThreshold} and does not take its final fallback branch; the
\* fallback to Discharging is taken only when some reading carries a
\* synthetic state (AtThreshold or Invalid), and name_to_battery_state
\* accepts the names of both from a status string.
C22_FallbackOnlyOnSynthetic ==
    Aggregated
        => /\ AllHardware(batteries)
                => /\ global_branch(batteries) # "fallback"
                   /\ Unwrap(global).state
                         \in {"Charging", "Discharging", "Full", "AtThreshold"}
           /\ global_branch(batteries) = "fallback"
                => /\ \E i \in 1..Len(batteries) :
                         batteries[i].state \in SyntheticStates
                   /\ Unwrap(global).state = "Discharging"
           /\ \A s \in SyntheticStates :
                 name_to_battery_state(battery_state_to_name(s)) = Some(s)

\* readings of hardware states that are neither Charging nor Discharging nor
\* all Full, NotCharging among them: the fourth branch, not the fallback
C22_Witness ==
    /\ Aggregated
    /\ AllHardware(batteries)
    /\ "NotCharging" \in States(batteries)
    /\ global_branch(batteries) = "threshold"
    /\ Unwrap(global).state = "AtThreshold"

\* the fallback is taken, by a reading in a synthetic state
FallbackTaken ==
    /\ Aggregated
    /\ global_branch(batteries) = "fallback"
    /\ "Invalid" \in States(batteries)

(***************************************************************************)
(* More of SingleNotification (SpecSlot)                                   *)
(***************************************************************************)
\* The last call was a show the slot took for a duplicate: it sent nothing
SuppressedShow == lastOp.op = "show" /\ lastOp.calls = <<>>

\* C23: after any sequence of show and close calls on a slot, a live
\* notification handle implies a remembered text; when the notifier never
\* fails the converse holds too, the slot remembers a text if and only if it
\* holds a live handle, so that a slot without a live notification never
\* suppresses a show as a duplicate.
C23_TextIffLive ==
    /\ slot.hnd # None => Remembered(slot) # NoText
    /\ ~lastOp.failed
          => /\ Remembered(slot) # NoText => slot.hnd # None
             /\ SuppressedShow => lastOp.before.hnd # None

\* C23 as it holds of notification.rs alone
TextIffLiveInModule == impl = "notification.rs" => C23_TextIffLive

\* notification.rs: a show was suppressed, the slot displaying its text
SuppressedWhileLive ==
    /\ impl = "notification.rs"
    /\ ~lastOp.failed
    /\ SuppressedShow
    /\ slot.hnd # None
    /\ Remembered(slot) = Some(lastOp.summary)

====
